---- MODULE Spec2Model ----
(***************************************************************************)
(* Model of corners_sportmonks_streamlit.py: the SportmonksCornersFinder   *)
(* class (market search, fixture lookup by date / by round, per-fixture    *)
(* corner odds, result table) and the main() pipeline that drives it.      *)
(*                                                                         *)
(* The upstream HTTP API is the environment: every response (status, body, *)
(* envelope shape, items) is chosen nondeterministically from small sets.  *)
(***************************************************************************)
EXTENDS Integers, Sequences, FiniteSets, TLC

(***************************************************************************)
(* Bounds of the model.                                                    *)
(***************************************************************************)
MaxFixtures == 2     \* longest fixture list the upstream API delivers
MaxMarkets == 2      \* longest market list the upstream API delivers
MaxLines == 1        \* most odds lines one per-market odds call returns

(***************************************************************************)
(* Strings that the code inspects are sequences of one-character strings,  *)
(* so that lower() and the substring test are computed, not assumed.       *)
(***************************************************************************)
UpperAlphabet ==
  <<"A","B","C","D","E","F","G","H","I","J","K","L","M",
    "N","O","P","Q","R","S","T","U","V","W","X","Y","Z">>
LowerAlphabet ==
  <<"a","b","c","d","e","f","g","h","i","j","k","l","m",
    "n","o","p","q","r","s","t","u","v","w","x","y","z">>

\* str.lower() on one character
LowerChar(c) ==
  IF \E k \in 1..Len(UpperAlphabet) : UpperAlphabet[k] = c
  THEN LowerAlphabet[CHOOSE k \in 1..Len(UpperAlphabet) : UpperAlphabet[k] = c]
  ELSE c

\* str.lower()
Lower(s) == [k \in 1..Len(s) |-> LowerChar(s[k])]

\* Python's  sub in s
Contains(s, sub) ==
  \E k \in 0..(Len(s) - Len(sub)) : SubSeq(s, k + 1, k + Len(sub)) = sub

StrCorner == <<"c","o","r","n","e","r">>
StrGoal == <<"g","o","a","l">>
StrAsianCornersTotal ==
  <<"A","s","i","a","n"," ","C","o","r","n","e","r","s"," ","T","o","t","a","l">>
StrCornersOverUnder ==
  <<"C","o","r","n","e","r","s"," ","O","v","e","r","/","U","n","d","e","r">>
StrTotalGoals == <<"T","o","t","a","l"," ","G","o","a","l","s">>

\* a JSON string-or-null value: null is [null |-> TRUE, s |-> <<>>]
JStr(s) == [null |-> FALSE, s |-> s]
JNull == [null |-> TRUE, s |-> <<>>]

\* Python's  (v or "")  for a string-or-null value
OrEmpty(v) == IF v.null THEN <<>> ELSE v.s

(***************************************************************************)
(* Upstream data.                                                          *)
(***************************************************************************)
\* market objects the search endpoint can return
UpstreamMarkets ==
  { [id |-> 7, name |-> JStr(StrCornersOverUnder), developer_name |-> "CORNERS_OVER_UNDER"],
    [id |-> 8, name |-> JStr(StrAsianCornersTotal), developer_name |-> "ASIAN_CORNERS_TOTAL"],
    [id |-> 9, name |-> JStr(StrTotalGoals), developer_name |-> "TOTAL_GOALS"],
    [id |-> 10, name |-> JNull, developer_name |-> "UNNAMED"] }

\* fixture objects (the fields the code reads that matter to the rows);
\* starting_at values are numbers ordered as the timestamps are. Fixture 1
\* starts after fixtures 2 and 3, which start together.
UpstreamFixtures ==
  { [id |-> 1, starting_at |-> 2, has_odds |-> h] : h \in BOOLEAN } \cup
  { [id |-> 2, starting_at |-> 1, has_odds |-> h] : h \in BOOLEAN } \cup
  { [id |-> 3, starting_at |-> 1, has_odds |-> h] : h \in BOOLEAN }

\* all sequences over S of length at most n
SeqsUpTo(S, n) == UNION { [1..k -> S] : k \in 0..n }

\* sequences without repeated elements
Injective(s) == \A a, b \in 1..Len(s) : a # b => s[a] # s[b]

\* search terms a caller passes to get_corner_market_ids
Terms == {StrCorner, StrGoal}

\* envelope shapes of a JSON body:
\*   "list"            [ ... ]
\*   "data_list"       {"data": [ ... ]}
\*   "data_data_list"  {"data": {"data": [ ... ]}}
\*   "data_null"       {"data": null}
\*   "no_data"         {}
Shapes == {"list", "data_list", "data_data_list", "data_null", "no_data"}

Payload(shape, items) == [shape |-> shape, items |-> items]
NoPayload == [shape |-> "none", items |-> <<>>]

(***************************************************************************)
(* HTTP layer: requests, responses, _get.                                  *)
(***************************************************************************)
TextLimit == 400         \* resp.text[:400]

Min(a, b) == IF a < b THEN a ELSE b

\* a request URL, by endpoint and path arguments
Url(endpoint, term, fixture_id, market_id) ==
  [endpoint |-> endpoint, term |-> term, fixture_id |-> fixture_id, market_id |-> market_id]
NoUrl == Url("none", <<>>, 0, 0)

MarketSearchUrl(term) == Url("odds/markets/search", term, 0, 0)
FixturesDateUrl == Url("football/fixtures/date", <<>>, 0, 0)
RoundUrl == Url("football/rounds", <<>>, 0, 0)
OddsUrl(fixture_id, m_id) == Url("football/odds/pre-match/fixtures/markets", <<>>, fixture_id, m_id)

\* query parameters: a function from parameter name to value
EmptyParams == [k \in {} |-> ""]
DateParams == ("filters" :> "havingOdds") @@ ("include" :> "league;participants")
RoundParams == ("include" :> "fixtures.league;fixtures.participants")

\* dict.setdefault(key, val)
SetDefault(params, key, val) ==
  IF key \in DOMAIN params THEN params ELSE params @@ (key :> val)

\* an exception (or none)
Exc(type, url, status_code, body_len) ==
  [type |-> type, url |-> url, status_code |-> status_code, body_len |-> body_len]
NoError == Exc("none", NoUrl, 0, 0)

\* an HTTP response: success flag, status code, length of the body text, JSON body
Response(ok, status_code, text_len, json) ==
  [ok |-> ok, status_code |-> status_code, text_len |-> text_len, json |-> json]

\* the request that _get sends
GetRequest(self, url, params) ==
  [url |-> url, params |-> SetDefault(params, "api_token", self.api_token)]

\* variant: resp.ok is not tested, the body is returned whatever the status
GetResultUnchecked(url, r) == [raised |-> FALSE, error |-> NoError, json |-> r.json]

\* what _get gives back for response r: the JSON body, or RuntimeError
GetResult(url, r) ==
  IF ~r.ok
  THEN [raised |-> TRUE,
        error |-> Exc("RuntimeError", url, r.status_code, Min(r.text_len, TextLimit)),
        json |-> NoPayload]
  ELSE [raised |-> FALSE, error |-> NoError, json |-> r.json]

\* failing responses of a required call
ErrorResponses ==
  { Response(FALSE, st, len, NoPayload) :
      st \in {404, 500}, len \in {0, TextLimit, TextLimit + 1} }

\* the failing response of an odds call
OddsFailure == Response(FALSE, 500, 0, NoPayload)

(***************************************************************************)
(* Envelope handling.                                                      *)
(***************************************************************************)
\* a Python value that is a list, or a dict that wraps a list under "data"
PyList(items) == [kind |-> "list", items |-> items]
PyDict(items) == [kind |-> "dict", items |-> items]

\* variant: data["data"] instead of data.get("data", []) or []: a missing
\* key raises and null is not replaced by the empty list
GetDataByIndex(data) ==
  CASE data.shape = "data_list" ->
         [raised |-> FALSE, value |-> PyList(data.items)]
    [] data.shape = "data_data_list" ->
         [raised |-> FALSE, value |-> PyDict(data.items)]
    [] OTHER ->
         [raised |-> TRUE, value |-> PyList(<<>>)]

\* data.get("data", []) or []   (AttributeError when data is a list)
GetDataOrEmpty(data) ==
  CASE data.shape = "list" ->
         [raised |-> TRUE, value |-> PyList(<<>>)]
    [] data.shape = "data_list" ->
         [raised |-> FALSE, value |-> PyList(data.items)]
    [] data.shape = "data_data_list" ->
         [raised |-> FALSE, value |-> PyDict(data.items)]
    [] OTHER ->
         [raised |-> FALSE, value |-> PyList(<<>>)]

\* variant: the has_odds test is missing
AllFixtures(fixtures) == fixtures

\* [fx for fx in fixtures if fx.get("has_odds")]
RECURSIVE WithOdds(_)
WithOdds(fixtures) ==
  IF fixtures = <<>> THEN <<>>
  ELSE LET fx == Head(fixtures)
       IN (IF fx.has_odds THEN <<fx>> ELSE <<>>) \o WithOdds(Tail(fixtures))

\* body of get_fixtures_by_round_with_odds after _get; data.shape is the
\* shape of the round's "fixtures" field
RoundFixtures(data) ==
  CASE data.shape = "list" ->
         \* (round_data.get("fixtures") or {}).get(...): a non-empty list has no .get
         IF data.items = <<>>
         THEN [raised |-> FALSE, value |-> PyList(<<>>)]
         ELSE [raised |-> TRUE, value |-> PyList(<<>>)]
    [] data.shape = "data_list" ->
         [raised |-> FALSE, value |-> PyList(WithOdds(data.items))]
    [] data.shape = "data_data_list" ->
         \* iterating the inner dict yields its key "data"; str has no .get
         [raised |-> TRUE, value |-> PyList(<<>>)]
    [] OTHER ->
         [raised |-> FALSE, value |-> PyList(<<>>)]

(***************************************************************************)
(* Market resolver.                                                        *)
(***************************************************************************)
\* variant: the name is not lower-cased before the test
RECURSIVE CornerMarketsCaseSensitive(_)
CornerMarketsCaseSensitive(markets) ==
  IF markets = <<>> THEN <<>>
  ELSE LET m == Head(markets)
           name == OrEmpty(m.name)
       IN (IF Contains(name, StrCorner)
           THEN <<[id |-> m.id, name |-> m.name, developer_name |-> m.developer_name]>>
           ELSE <<>>) \o CornerMarketsCaseSensitive(Tail(markets))

\* the loop of get_corner_market_ids over the markets of the response
RECURSIVE CornerMarkets(_)
CornerMarkets(markets) ==
  IF markets = <<>> THEN <<>>
  ELSE LET m == Head(markets)
           name == Lower(OrEmpty(m.name))
       IN (IF Contains(name, StrCorner)
           THEN <<[id |-> m.id, name |-> m.name, developer_name |-> m.developer_name]>>
           ELSE <<>>) \o CornerMarkets(Tail(markets))

(***************************************************************************)
(* Odds aggregator.                                                        *)
(***************************************************************************)
\* market_ids = [m["id"] for m in corner_markets]
MarketIds(corner_markets) == [k \in 1..Len(corner_markets) |-> corner_markets[k].id]

\* the n odds lines the upstream API holds for a fixture and a market
OddsLines(fixture_id, m_id, n) ==
  [k \in 1..n |-> [fixture_id |-> fixture_id, market_id |-> m_id, line |-> k]]

\* the response to the odds call for market m_id: out = -1 is a failure,
\* out >= 0 a success carrying that many odds lines
OddsResponse(fixture_id, m_id, out) ==
  IF out < 0 THEN OddsFailure
  ELSE Response(TRUE, 200, 0, Payload("data_list", OddsLines(fixture_id, m_id, out)))

\* the for-loop of get_corner_odds_for_fixture from market k on; resps[k] is
\* the response the k-th call gets. The result says whether an exception
\* left the function, the lines gathered and the requests sent.
RECURSIVE OddsLoop(_, _, _, _, _, _, _)
OddsLoop(self, fixture_id, market_ids, resps, k, all_corner_odds, reqs) ==
  IF k > Len(market_ids)
  THEN [raised |-> FALSE, error |-> NoError, lines |-> all_corner_odds, requests |-> reqs]
  ELSE LET url == OddsUrl(fixture_id, market_ids[k])
           req == GetRequest(self, url, EmptyParams)
           got == GetResult(url, resps[k])
           odds == GetDataOrEmpty(got.json)
       IN IF got.raised
          THEN [raised |-> TRUE, error |-> got.error,
                lines |-> all_corner_odds, requests |-> Append(reqs, req)]
          ELSE IF odds.raised
          THEN [raised |-> TRUE, error |-> Exc("AttributeError", NoUrl, 0, 0),
                lines |-> all_corner_odds, requests |-> Append(reqs, req)]
          ELSE OddsLoop(self, fixture_id, market_ids, resps, k + 1,
                        IF odds.value.items # <<>>
                        THEN all_corner_odds \o odds.value.items
                        ELSE all_corner_odds,
                        Append(reqs, req))

GetCornerOddsForFixture(self, fixture_id, market_ids, resps) ==
  IF market_ids = <<>>
  THEN [raised |-> FALSE, error |-> NoError, lines |-> <<>>, requests |-> <<>>]
  ELSE OddsLoop(self, fixture_id, market_ids, resps, 1, <<>>, <<>>)

\* variant: the failure is caught per call, the lines gathered so far are kept
TryCornerOddsKeepPartial(res) == res.lines

\* try: corner_odds = ...  except Exception: corner_odds = []
TryCornerOdds(res) == IF res.raised THEN <<>> ELSE res.lines

\* variant: the columns "Fixture ID" and "Líneas corners (total)" are swapped
RowSwapped(fx, corner_odds) ==
  [fixture_id |-> Len(corner_odds), starting_at |-> fx.starting_at, lines |-> fx.id]

\* one entry of filas (league and team names are not modelled)
Row(fx, corner_odds) ==
  [fixture_id |-> fx.id, starting_at |-> fx.starting_at, lines |-> Len(corner_odds)]

\* variant: the row is appended without the "if corner_odds" test
AppendRowAlways(filas, fx, corner_odds) == Append(filas, Row(fx, corner_odds))

\* filas after the loop body has run for fixture fx
AppendRow(filas, fx, corner_odds) ==
  IF corner_odds # <<>> THEN Append(filas, Row(fx, corner_odds)) ELSE filas

\* variant: the frame is returned unsorted
Unsorted(filas) ==
  { [k \in 1..Len(filas) |->
       [index |-> k,
        fixture_id |-> filas[k].fixture_id,
        starting_at |-> filas[k].starting_at,
        lines |-> filas[k].lines]] }

\* the frames df.sort_values("Fecha/hora") can return: rows in ascending
\* starting_at, each keeping its index label (its position in filas). The
\* default sort kind is quicksort, which is not stable, so rows with equal
\* starting_at may come out in any order.
SortValues(filas) ==
  { [k \in 1..Len(filas) |->
       [index |-> p[k],
        fixture_id |-> filas[p[k]].fixture_id,
        starting_at |-> filas[p[k]].starting_at,
        lines |-> filas[p[k]].lines]] :
    p \in { q \in Permutations(1..Len(filas)) :
              \A a, b \in 1..Len(filas) :
                 a < b => filas[q[a]].starting_at <= filas[q[b]].starting_at } }

\* what build_corners_dataframe returns once the loop is over
DataFrames(filas) == IF filas = <<>> THEN {<<>>} ELSE SortValues(filas)

(***************************************************************************)
(* State.                                                                  *)
(***************************************************************************)
VARIABLES
  caller,          \* "main": the Streamlit pipeline; "lib": code calling the class directly
  pc,              \* where the invocation is
  api_token,       \* the credential given by the user
  modo,            \* main's search mode
  finder,          \* the SportmonksCornersFinder (its api_token field)
  search_term,     \* argument of get_corner_market_ids
  resp,            \* status line of the latest HTTP response (ok, status code, body length)
  data,            \* JSON body of the latest market / fixture response, until the table is built
  corner_markets,  \* market descriptors
  fixtures,        \* what the fixture locator returned
  i,               \* fixtures processed by build_corners_dataframe
  filas,           \* rows gathered so far
  df,              \* the returned frame
  fetched,         \* per processed fixture: what its odds calls were answered
  lastReqs,        \* requests sent by the latest operation
  calls,           \* requests sent so far, per kind of endpoint
  error            \* the exception that ended the invocation

vars ==
  <<caller, pc, api_token, modo, finder, search_term, resp, data, corner_markets,
    fixtures, i, filas, df, fetched, lastReqs, calls, error>>

NoFinder == [api_token |-> ""]

\* the part of a response kept in resp
StatusOf(r) == [ok |-> r.ok, status_code |-> r.status_code, text_len |-> r.text_len]
NoResponse == [ok |-> TRUE, status_code |-> 0, text_len |-> 0]

Init ==
  /\ caller \in {"main", "lib"}
  /\ pc = "start"
  /\ api_token \in {"", "tok"}
  /\ modo \in (IF caller = "main" THEN {"Por fecha", "Por Round ID"} ELSE {"none"})
  /\ finder = NoFinder
  /\ search_term = <<>>
  /\ resp = NoResponse
  /\ data = NoPayload
  /\ corner_markets = <<>>
  /\ fixtures = PyList(<<>>)
  /\ i = 0
  /\ filas = <<>>
  /\ df = <<>>
  /\ fetched = <<>>
  /\ lastReqs = <<>>
  /\ calls = [markets |-> 0, fixtures |-> 0, odds |-> 0]
  /\ error = NoError

\* an exception leaves the class: main's except clause reports it, any
\* other caller receives it
Raise(e) ==
  /\ pc' = IF caller = "main" THEN "error" ELSE "raised"
  /\ error' = e

(***************************************************************************)
(* main(): token check, and construction of the finder.                    *)
(***************************************************************************)
\* main: if not api_token: st.error(...); return
MainNoToken ==
  /\ caller = "main" /\ pc = "start" /\ api_token = ""
  /\ pc' = "no_token"
  /\ UNCHANGED <<caller, api_token, modo, finder, search_term, resp, data, corner_markets,
                 fixtures, i, filas, df, fetched, lastReqs, calls, error>>

\* variant: the constructor accepts an empty token
ConstructUnchecked ==
  /\ pc = "start"
  /\ caller = "main" => api_token # ""
  /\ finder' = [api_token |-> api_token]
  /\ pc' = "constructed"
  /\ UNCHANGED <<caller, api_token, modo, search_term, resp, data, corner_markets,
                 fixtures, i, filas, df, fetched, lastReqs, calls, error>>

\* SportmonksCornersFinder.__init__
Construct ==
  /\ pc = "start"
  /\ caller = "main" => api_token # ""
  /\ IF api_token = ""
     THEN /\ Raise(Exc("ValueError", NoUrl, 0, 0))
          /\ UNCHANGED finder
     ELSE /\ finder' = [api_token |-> api_token]
          /\ pc' = "constructed"
          /\ UNCHANGED error
  /\ UNCHANGED <<caller, api_token, modo, search_term, resp, data, corner_markets,
                 fixtures, i, filas, df, fetched, lastReqs, calls>>

(***************************************************************************)
(* get_corner_market_ids                                                   *)
(***************************************************************************)
\* bodies the market search can answer with
MarketResponses ==
  ErrorResponses \cup
  { Response(TRUE, 200, 0, Payload(sh, ms)) :
      sh \in {"data_list"},
      ms \in { m \in SeqsUpTo(UpstreamMarkets, MaxMarkets) : Injective(m) } } \cup
  { Response(TRUE, 200, 0, Payload(sh, <<>>)) : sh \in {"data_null", "no_data"} }

\* the call and _get: main passes no argument (search_term = "corner")
MarketSearch ==
  /\ pc = "constructed"
  /\ \E t \in (IF caller = "main" THEN {StrCorner} ELSE Terms), r \in MarketResponses :
       LET url == MarketSearchUrl(t)
           got == GetResult(url, r)
       IN /\ search_term' = t
          /\ resp' = StatusOf(r)
          /\ lastReqs' = <<GetRequest(finder, url, EmptyParams)>>
          /\ calls' = [calls EXCEPT !.markets = @ + 1]
          /\ IF got.raised
             THEN /\ Raise(got.error)
                  /\ UNCHANGED data
             ELSE /\ data' = got.json
                  /\ pc' = "markets_resp"
                  /\ UNCHANGED error
  /\ UNCHANGED <<caller, api_token, modo, finder, corner_markets,
                 fixtures, i, filas, df, fetched>>

\* variant: main goes on to the fixtures when no market was found
MarketFilterNoStop ==
  /\ pc = "markets_resp"
  /\ corner_markets' = CornerMarkets(GetDataOrEmpty(data).value.items)
  /\ pc' = IF caller = "lib" THEN "returned" ELSE "fixtures_call"
  /\ UNCHANGED <<caller, api_token, modo, finder, search_term, resp, data,
                 fixtures, i, filas, df, fetched, lastReqs, calls, error>>

\* the filter and the return; main then stops if the list is empty
MarketFilter ==
  /\ pc = "markets_resp"
  /\ LET markets == GetDataOrEmpty(data).value.items
         found == CornerMarkets(markets)
     IN /\ corner_markets' = found
        /\ pc' = IF caller = "lib" THEN "returned"
                 ELSE IF found = <<>> THEN "no_markets" ELSE "fixtures_call"
  /\ UNCHANGED <<caller, api_token, modo, finder, search_term, resp, data,
                 fixtures, i, filas, df, fetched, lastReqs, calls, error>>

(***************************************************************************)
(* Fixture locator.                                                        *)
(***************************************************************************)
\* fixtures of a date: the server applies filters=havingOdds
DatedFixtures == { fx \in UpstreamFixtures : fx.has_odds }

\* bodies the fixtures-by-date endpoint can answer with
DateResponses ==
  ErrorResponses \cup
  { Response(TRUE, 200, 0, Payload(sh, fs)) :
      sh \in Shapes, fs \in SeqsUpTo(DatedFixtures, MaxFixtures) }

\* bodies the round endpoint can answer with; the shape is that of the
\* round's "fixtures" field
RoundResponses ==
  ErrorResponses \cup
  { Response(TRUE, 200, 0, Payload(sh, fs)) :
      sh \in Shapes, fs \in SeqsUpTo(UpstreamFixtures, MaxFixtures) }

\* the locator is called by main after the market step, or directly
LocatorCalled(m) ==
  \/ caller = "main" /\ pc = "fixtures_call" /\ modo = m
  \/ caller = "lib" /\ pc = "constructed"

\* get_fixtures_by_date_with_odds: the call and _get
FixturesByDate ==
  /\ LocatorCalled("Por fecha")
  /\ \E r \in DateResponses :
       LET got == GetResult(FixturesDateUrl, r)
       IN /\ resp' = StatusOf(r)
          /\ lastReqs' = <<GetRequest(finder, FixturesDateUrl, DateParams)>>
          /\ calls' = [calls EXCEPT !.fixtures = @ + 1]
          /\ IF got.raised
             THEN /\ Raise(got.error)
                  /\ UNCHANGED data
             ELSE /\ data' = got.json
                  /\ pc' = "date_resp"
                  /\ UNCHANGED error
  /\ UNCHANGED <<caller, api_token, modo, finder, search_term, corner_markets,
                 fixtures, i, filas, df, fetched>>

\* get_fixtures_by_round_with_odds: the call and _get
FixturesByRound ==
  /\ LocatorCalled("Por Round ID")
  /\ \E r \in RoundResponses :
       LET got == GetResult(RoundUrl, r)
       IN /\ resp' = StatusOf(r)
          /\ lastReqs' = <<GetRequest(finder, RoundUrl, RoundParams)>>
          /\ calls' = [calls EXCEPT !.fixtures = @ + 1]
          /\ IF got.raised
             THEN /\ Raise(got.error)
                  /\ UNCHANGED data
             ELSE /\ data' = got.json
                  /\ pc' = "round_resp"
                  /\ UNCHANGED error
  /\ UNCHANGED <<caller, api_token, modo, finder, search_term, corner_markets,
                 fixtures, i, filas, df, fetched>>

\* the locator returns res: to the direct caller, or to main, which stops
\* when the list is empty ("if not fixtures") and otherwise builds the table
LocatorReturn(res) ==
  IF res.raised
  THEN /\ Raise(Exc("AttributeError", NoUrl, 0, 0))
       /\ UNCHANGED <<fixtures, data>>
  ELSE /\ fixtures' = res.value
       /\ pc' = IF caller = "lib" THEN "returned"
                ELSE IF res.value = PyList(<<>>) THEN "no_fixtures" ELSE "build"
       /\ data' = IF pc' = "build" THEN NoPayload ELSE data
       /\ UNCHANGED error

\* get_fixtures_by_date_with_odds: return data.get("data", []) or []
DateReturn ==
  /\ pc = "date_resp"
  /\ LocatorReturn(GetDataOrEmpty(data))
  /\ UNCHANGED <<caller, api_token, modo, finder, search_term, resp, corner_markets,
                 i, filas, df, fetched, lastReqs, calls>>

\* get_fixtures_by_round_with_odds: unwrapping, has_odds filter, return
RoundReturn ==
  /\ pc = "round_resp"
  /\ LocatorReturn(RoundFixtures(data))
  /\ UNCHANGED <<caller, api_token, modo, finder, search_term, resp, corner_markets,
                 i, filas, df, fetched, lastReqs, calls>>

(***************************************************************************)
(* build_corners_dataframe                                                 *)
(***************************************************************************)
\* a direct call build_corners_dataframe(F, M)
LibBuild ==
  /\ caller = "lib" /\ pc = "constructed"
  /\ \E F \in SeqsUpTo(DatedFixtures, MaxFixtures),
        M \in { m \in SeqsUpTo({ d \in UpstreamMarkets : d.id \in {7, 8} }, MaxMarkets) :
                  Injective(m) } :
       /\ fixtures' = PyList(F)
       /\ corner_markets' = M
  /\ pc' = "build"
  /\ UNCHANGED <<caller, api_token, modo, finder, search_term, resp, data,
                 i, filas, df, fetched, lastReqs, calls, error>>

\* what the odds calls sent for a fixture were answered: whether one of them
\* failed, and how many odds lines the answered ones carried
RECURSIVE Received(_, _)
Received(resps, n) ==
  IF n = 0 THEN 0
  ELSE Received(resps, n - 1) + (IF resps[n].ok THEN Len(resps[n].json.items) ELSE 0)

Answers(resps, n) ==
  [failed |-> \E k \in 1..n : ~resps[k].ok, lines |-> Received(resps, n)]

\* one iteration of "for fx in fixtures"
BuildStep ==
  /\ pc = "build" /\ fixtures.kind = "list" /\ i < Len(fixtures.items)
  /\ LET fx == fixtures.items[i + 1]
         market_ids == MarketIds(corner_markets)
     IN \E outs \in [1..Len(market_ids) -> -1..MaxLines] :
          LET resps == [k \in 1..Len(market_ids) |->
                          OddsResponse(fx.id, market_ids[k], outs[k])]
              res == GetCornerOddsForFixture(finder, fx.id, market_ids, resps)
              corner_odds == TryCornerOdds(res)
          IN /\ filas' = AppendRow(filas, fx, corner_odds)
             /\ fetched' = Append(fetched, Answers(resps, Len(res.requests)))
             /\ lastReqs' = res.requests
             /\ resp' = IF res.requests = <<>> THEN resp
                        ELSE StatusOf(resps[Len(res.requests)])
             /\ calls' = [calls EXCEPT !.odds = @ + Len(res.requests)]
  /\ i' = i + 1
  /\ UNCHANGED <<caller, pc, api_token, modo, finder, search_term, data,
                 corner_markets, fixtures, df, error>>

\* "for fx in fixtures" over a dict yields its key, a str: fx.get raises
BuildOverDict ==
  /\ pc = "build" /\ fixtures.kind = "dict"
  /\ Raise(Exc("AttributeError", NoUrl, 0, 0))
  /\ UNCHANGED <<caller, api_token, modo, finder, search_term, resp, data, corner_markets,
                 fixtures, i, filas, df, fetched, lastReqs, calls>>

\* after the loop: the empty frame, or the frame sorted by "Fecha/hora"
BuildReturn ==
  /\ pc = "build" /\ fixtures.kind = "list" /\ i = Len(fixtures.items)
  /\ df' \in DataFrames(filas)
  /\ pc' = "done"
  /\ UNCHANGED <<caller, api_token, modo, finder, search_term, resp, data, corner_markets,
                 fixtures, i, filas, fetched, lastReqs, calls, error>>

Next ==
  \/ MainNoToken
  \/ Construct
  \/ MarketSearch
  \/ MarketFilter
  \/ FixturesByDate
  \/ FixturesByRound
  \/ DateReturn
  \/ RoundReturn
  \/ LibBuild
  \/ BuildStep
  \/ BuildOverDict
  \/ BuildReturn

Spec == Init /\ [][Next]_vars

(***************************************************************************)
(* Properties of build_corners_dataframe.                                  *)
(***************************************************************************)
\* the rows expected for fixtures fs whose odds fetches yielded ls[k] lines:
\* one row per fixture with at least one line, in the order of fs
RECURSIVE RowsFor(_, _)
RowsFor(fs, ls) ==
  IF fs = <<>> THEN <<>>
  ELSE (IF Head(ls) >= 1
        THEN <<[fixture_id |-> Head(fs).id, starting_at |-> Head(fs).starting_at,
                lines |-> Head(ls)]>>
        ELSE <<>>) \o RowsFor(Tail(fs), Tail(ls))

\* lines the odds fetch of the k-th fixture yielded: none when a call failed
Yielded(k) == IF fetched[k].failed THEN 0 ELSE fetched[k].lines

\* df holds exactly the rows of filas, each once
SameRows ==
  /\ Len(df) = Len(filas)
  /\ { df[k].index : k \in 1..Len(df) } = 1..Len(filas)
  /\ \A k \in 1..Len(df) :
       /\ df[k].fixture_id = filas[df[k].index].fixture_id
       /\ df[k].starting_at = filas[df[k].index].starting_at
       /\ df[k].lines = filas[df[k].index].lines

\* C1: a row is emitted for a fixture iff its odds fetch yielded at least one
\* line; every row's line count is >= 1 and equals the number of lines
\* fetched for its fixture; the returned frame holds exactly these rows.
C1_RowIffOddsLines ==
  (pc \in {"build", "done"} /\ fixtures.kind = "list") =>
    /\ Len(fetched) = i /\ i <= Len(fixtures.items)
    /\ filas = RowsFor(SubSeq(fixtures.items, 1, i), [k \in 1..i |-> Yielded(k)])
    /\ \A k \in 1..Len(filas) : filas[k].lines >= 1
    /\ pc = "done" =>
         /\ i = Len(fixtures.items)
         /\ SameRows
         /\ \A k \in 1..Len(df) : df[k].lines >= 1

\* fixture 1 got two lines, fixture 2 none: one row, fixture 1, count 2
C1_Witness ==
  /\ pc = "done" /\ Len(fixtures.items) = 2
  /\ fixtures.items[1].id = 1 /\ fixtures.items[2].id = 2
  /\ ~fetched[1].failed /\ fetched[1].lines = 2
  /\ ~fetched[2].failed /\ fetched[2].lines = 0
  /\ Len(df) = 1 /\ df[1].fixture_id = 1 /\ df[1].lines = 2

\* positions of the processed fixtures none of whose odds calls failed
Unfailed == SelectSeq([k \in 1..Len(fetched) |-> k], LAMBDA k : ~fetched[k].failed)

\* C2: once an odds request for a fixture has failed, no error reaches the
\* caller, the loop goes on to the last fixture, and the rows are those of
\* the fixture list with the failed fixtures left out.
C2_FailedFetchSkipsFixture ==
  (\E k \in 1..Len(fetched) : fetched[k].failed) =>
    /\ pc \in {"build", "done"} /\ error = NoError
    /\ filas = RowsFor([k \in 1..Len(Unfailed) |-> fixtures.items[Unfailed[k]]],
                       [k \in 1..Len(Unfailed) |-> fetched[Unfailed[k]].lines])
    /\ pc = "done" => Len(fetched) = Len(fixtures.items)

\* the first fixture's later odds call failed after an earlier one had
\* returned a line; the second fixture is in the result
C2_Witness ==
  /\ pc = "done" /\ Len(fetched) = 2
  /\ fetched[1].failed /\ fetched[1].lines >= 1
  /\ ~fetched[2].failed
  /\ Len(df) = 1 /\ df[1].fixture_id = fixtures.items[2].id

\* how often fixture id occurs in a sequence of records
Occurrences(seq, id(_), v) == Cardinality({ k \in 1..Len(seq) : id(seq[k]) = v })

\* the fixture ids of F
IdsOf(F) == { F[k].id : k \in 1..Len(F) }

\* C3 as stated: no row with a fixture id outside F, and no fixture id twice
C3_Original ==
  pc = "done" =>
    /\ \A k \in 1..Len(df) : df[k].fixture_id \in IdsOf(fixtures.items)
    /\ \A a, b \in 1..Len(df) : a # b => df[a].fixture_id # df[b].fixture_id

\* C3 (amended): no row with a fixture id outside F, and a fixture id occurs
\* in the rows at most as often as it occurs in F.
C3_Amended ==
  pc = "done" =>
    /\ \A k \in 1..Len(df) : df[k].fixture_id \in IdsOf(fixtures.items)
    /\ \A v \in IdsOf(fixtures.items) :
         Occurrences(df, LAMBDA r : r.fixture_id, v)
           <= Occurrences(fixtures.items, LAMBDA fx : fx.id, v)

\* a fixture delivered twice is in the result twice
C3_Witness ==
  /\ pc = "done" /\ Len(df) = 2
  /\ df[1].fixture_id = df[2].fixture_id

\* df is in ascending starting_at order
Ascending == \A a, b \in 1..Len(df) : a < b => df[a].starting_at <= df[b].starting_at

Failed == {"error", "raised"}

HasOdds(fx) == fx.has_odds

\* C5 as stated: a bare list, {data: [...]} and {data: {data: [...]}} all
\* give the same fixture list without an exception, and a body with no
\* fixture collection gives the empty list
C5_Original ==
  [][ /\ (pc = "date_resp" /\ data.shape \in {"list", "data_list", "data_data_list"}) =>
           (pc' \notin Failed /\ fixtures' = PyList(data.items))
      /\ (pc = "round_resp" /\ data.shape \in {"list", "data_list", "data_data_list"}) =>
           (pc' \notin Failed /\ fixtures' = PyList(SelectSeq(data.items, HasOdds)))
      /\ (pc \in {"date_resp", "round_resp"} /\ data.shape \in {"data_null", "no_data"}) =>
           (pc' \notin Failed /\ fixtures' = PyList(<<>>))
    ]_vars

\* the locator ends with an AttributeError and returns nothing
RaisesAttributeError ==
  /\ pc' \in Failed /\ error'.type = "AttributeError"
  /\ fixtures' = fixtures

\* C5 (amended): only {data: [...]} is unwrapped. For it the locator returns
\* the list (by round: its has_odds fixtures); a body with no data or null
\* data gives the empty list. A bare list raises AttributeError (by round:
\* when the fixtures field is a non-empty list; empty gives the empty list).
\* {data: {data: [...]}} is not unwrapped: by date the inner object is
\* returned as it is, and build_corners_dataframe raises on it; by round the
\* locator raises.
C5_Amended ==
  [][ /\ pc = "date_resp" =>
           CASE data.shape = "data_list" ->
                  pc' \notin Failed /\ fixtures' = PyList(data.items)
             [] data.shape = "list" -> RaisesAttributeError
             [] data.shape = "data_data_list" ->
                  pc' \notin Failed /\ fixtures' = PyDict(data.items)
             [] OTHER -> pc' \notin Failed /\ fixtures' = PyList(<<>>)
      /\ pc = "round_resp" =>
           CASE data.shape = "data_list" ->
                  pc' \notin Failed /\ fixtures' = PyList(SelectSeq(data.items, HasOdds))
             [] data.shape = "list" /\ data.items # <<>> -> RaisesAttributeError
             [] data.shape = "data_data_list" -> RaisesAttributeError
             [] OTHER -> pc' \notin Failed /\ fixtures' = PyList(<<>>)
      /\ (pc = "build" /\ fixtures.kind = "dict") =>
           (pc' \in Failed /\ error'.type = "AttributeError" /\ df' = <<>>)
    ]_vars

\* get_fixtures_by_date_with_odds has returned the two fixtures of {data: [...]}
C5_Witness ==
  /\ pc = "returned" /\ lastReqs = <<GetRequest(finder, FixturesDateUrl, DateParams)>>
  /\ data.shape = "data_list" /\ Len(data.items) = 2
  /\ fixtures = PyList(data.items)

\* market m's name contains term t, case-insensitively
NameContains(m, t) == ~m.name.null /\ Contains(Lower(m.name.s), Lower(t))

\* C6 as stated: the result is the markets whose name contains the search
\* term, in upstream order
C6_Original ==
  [][ pc = "markets_resp" =>
        corner_markets' = SelectSeq(data.items, LAMBDA m : NameContains(m, search_term))
    ]_vars

\* C6 (amended): whatever the search term, the result is the markets whose
\* name contains "corner" case-insensitively, in upstream order, each as
\* {id, name, developer_name}; a market without a name never matches.
C6_Amended ==
  [][ pc = "markets_resp" =>
        /\ corner_markets' = SelectSeq(data.items, LAMBDA m : NameContains(m, StrCorner))
        /\ \A k \in 1..Len(corner_markets') :
             /\ DOMAIN corner_markets'[k] = {"id", "name", "developer_name"}
             /\ ~corner_markets'[k].name.null
    ]_vars

\* searched with "goal": "Asian Corners Total" is kept, "Total Goals" dropped
C6_Witness ==
  /\ pc = "returned" /\ search_term = StrGoal
  /\ lastReqs = <<GetRequest(finder, MarketSearchUrl(StrGoal), EmptyParams)>>
  /\ Len(data.items) = 2
  /\ \E k \in 1..2 : data.items[k].name = JStr(StrTotalGoals)
  /\ Len(corner_markets) = 1 /\ corner_markets[1].name = JStr(StrAsianCornersTotal)

(***************************************************************************)
(* Properties of the pipeline.                                             *)
(***************************************************************************)
\* main's market search has returned, and returned no market
ResolvedEmpty ==
  /\ caller = "main" /\ calls.markets = 1
  /\ pc \notin {"markets_resp", "error"}
  /\ corner_markets = <<>>

\* the table is being built, or is built, from a list of fixtures
Building == pc \in {"build", "done"} /\ fixtures.kind = "list"

\* C7 as stated: with an empty market set the pipeline goes on, and each
\* fixture gets one bulk odds call; otherwise at most |markets| calls
C7_Original ==
  /\ ResolvedEmpty => pc # "no_markets"
  /\ (Building /\ i >= 1 /\ corner_markets = <<>>) => Len(lastReqs) = 1
  /\ (Building /\ i >= 1 /\ corner_markets # <<>>) => Len(lastReqs) <= Len(corner_markets)

\* C7 (amended): with an empty market set main stops: no fixture call, no
\* odds call, no row; build_corners_dataframe given an empty market set sends
\* no odds call and gathers no row. With a non-empty market set each fixture
\* gets one call per market id, in market order, up to the first failing
\* call, so at most |markets| calls.
C7_Amended ==
  /\ ResolvedEmpty =>
       /\ pc = "no_markets" /\ error = NoError
       /\ calls.fixtures = 0 /\ calls.odds = 0
       /\ filas = <<>> /\ df = <<>>
  /\ (Building /\ corner_markets = <<>>) =>
       /\ calls.odds = 0 /\ filas = <<>> /\ df = <<>>
  /\ (Building /\ i >= 1 /\ corner_markets # <<>>) =>
       /\ Len(lastReqs) \in 1..Len(corner_markets)
       /\ \A k \in 1..Len(lastReqs) :
            lastReqs[k].url = OddsUrl(fixtures.items[i].id, corner_markets[k].id)
       /\ ~fetched[i].failed => Len(lastReqs) = Len(corner_markets)

\* the search returned markets, none of them a corner market: main stopped
C7_Witness ==
  /\ pc = "no_markets" /\ data.items # <<>>
  /\ calls = [markets |-> 1, fixtures |-> 0, odds |-> 0]

\* endpoints of the required calls
Required == {"odds/markets/search", "football/fixtures/date", "football/rounds"}

\* C8: when the market search or the fixture listing is answered with a
\* non-success status, the invocation ends in an error whose message has the
\* URL, the status code and at most 400 characters of the body; it was the
\* only call to that endpoint, no later call was made and there are no rows.
C8_RequiredCallFailure ==
  (lastReqs # <<>> /\ lastReqs[1].url.endpoint \in Required /\ ~resp.ok) =>
    /\ pc = (IF caller = "main" THEN "error" ELSE "raised")
    /\ error.type = "RuntimeError"
    /\ error.url = lastReqs[1].url
    /\ error.status_code = resp.status_code
    /\ error.body_len <= TextLimit
    /\ resp.text_len <= TextLimit => error.body_len = resp.text_len
    /\ calls.odds = 0 /\ filas = <<>> /\ df = <<>>
    /\ lastReqs[1].url.endpoint = "odds/markets/search" =>
         (calls.markets = 1 /\ calls.fixtures = 0)
    /\ lastReqs[1].url.endpoint # "odds/markets/search" => calls.fixtures = 1

\* main's fixture listing failed with a body of 401 characters
C8_Witness ==
  /\ pc = "error" /\ error.url = FixturesDateUrl
  /\ resp.text_len = TextLimit + 1 /\ error.body_len = TextLimit
  /\ calls = [markets |-> 1, fixtures |-> 1, odds |-> 0]

\* C9: with an empty credential the constructor raises and no request is
\* ever sent; every request sent carries the credential as api_token.
C9_NoTokenNoCalls ==
  /\ api_token = "" =>
       /\ pc \in {"start", "no_token", "raised"}
       /\ caller = "lib" => pc \in {"start", "raised"}
       /\ pc = "raised" => error.type = "ValueError"
       /\ finder = NoFinder
       /\ lastReqs = <<>>
       /\ calls = [markets |-> 0, fixtures |-> 0, odds |-> 0]
  /\ \A k \in 1..Len(lastReqs) :
       /\ "api_token" \in DOMAIN lastReqs[k].params
       /\ lastReqs[k].params["api_token"] = api_token
       /\ api_token # ""

\* the constructor was given the empty credential and raised
C9_Witness ==
  /\ pc = "raised" /\ api_token = "" /\ error.type = "ValueError"
  /\ calls = [markets |-> 0, fixtures |-> 0, odds |-> 0]

\* C10: get_fixtures_by_round_with_odds returns the round's fixtures whose
\* has_odds is true, in upstream order; when none has, it returns the empty
\* list and main ends there: no error, no odds call, no row.
C10_RoundHasOddsOnly ==
  [][ /\ (pc = "round_resp" /\ data.shape = "data_list") =>
           /\ fixtures' = PyList(SelectSeq(data.items, HasOdds))
           /\ error' = NoError
           /\ (\A k \in 1..Len(data.items) : ~data.items[k].has_odds) =>
                /\ fixtures'.items = <<>>
                /\ pc' = (IF caller = "main" THEN "no_fixtures" ELSE "returned")
                /\ calls'.odds = 0 /\ filas' = <<>> /\ df' = <<>>
      /\ pc # "no_fixtures"
    ]_vars

\* a round of two fixtures, neither with odds: main ended without rows
C10_Witness ==
  /\ pc = "no_fixtures" /\ lastReqs = <<GetRequest(finder, RoundUrl, RoundParams)>>
  /\ data.shape = "data_list" /\ Len(data.items) = 2
  /\ \A k \in 1..2 : ~data.items[k].has_odds
  /\ error = NoError /\ calls.odds = 0 /\ df = <<>>

====
